---- MODULE Spec2Model ----
(***************************************************************************)
(* Book catalog page: the validation module (validators, validateBook,     *)
(* validateField) and the form-handling page script (main.js).             *)
(*                                                                         *)
(* JavaScript strings are sequences of one-character strings.  The value   *)
(* null/undefined is the one-element sequence NULL, whose element is no    *)
(* character.  An optional object (a record that may be missing) is a      *)
(* sequence of length 0 or 1.  A JavaScript object with optional           *)
(* properties is a record whose DOMAIN holds the properties it has.        *)
(***************************************************************************)
EXTENDS Integers, Sequences, FiniteSets, Bags, TLC

VARIABLES
    call,           \* the last call into the validation module, with its arguments
    result,         \* what that call returned
    form,           \* main.js: the values held by the inputs of #bookForm
    editingBookId,  \* main.js: let editingBookId
    inflight,       \* main.js: the async handlers suspended at an await
    server,         \* the ids of the books the API service holds
    table,          \* the ids of the rows rendered in #bookTableBody
    deletedOk,      \* ids whose window.deleteBook passed its await
    shown,          \* the message last given to uiService
    focus,          \* the form element that has the input focus
    cancelShown     \* elements.cancelButton.style.display is inline-block

libVars  == <<call, result>>
pageVars == <<form, editingBookId, inflight, server, table, deletedOk,
              shown, focus, cancelShown>>
vars     == <<libVars, pageVars>>

----------------------------------------------------------------------------
(* Bounds of the model *)

\* longest string drawn exhaustively over ValueAlphabet
MaxLen == 3
\* books held by the API service at page load whose rows the user acts on
MaxBooks == 1
\* async handlers suspended at an await at one time
MaxInflight == 2

----------------------------------------------------------------------------
(* Characters and strings *)

NULL == <<"null">>
UNDEFINED == "undefined"

Digit == {"0", "1", "2", "3", "4", "5", "6", "7", "8", "9"}
Lower == {"a", "b", "c", "d", "e", "f", "g", "h", "i", "j", "k", "l", "m",
          "n", "o", "p", "q", "r", "s", "t", "u", "v", "w", "x", "y", "z"}
Upper == {"A", "B", "C", "D", "E", "F", "G", "H", "I", "J", "K", "L", "M",
          "N", "O", "P", "Q", "R", "S", "T", "U", "V", "W", "X", "Y", "Z"}
\* \w
WordChar == Digit \cup Lower \cup Upper \cup {"_"}
\* the white space String.prototype.trim removes and \s matches
WhiteSpace == {" ", "\t", "\n", "\r"}
Punct == {"-", ".", "/", ":", "+", ",", "?", "=", "&", "%", "#", "!"}
Chars == WordChar \cup WhiteSpace \cup Punct

RECURSIVE TrimStart(_)
TrimStart(s) ==
    IF s # <<>> /\ Head(s) \in WhiteSpace THEN TrimStart(Tail(s)) ELSE s

RECURSIVE TrimEnd(_)
TrimEnd(s) ==
    IF s # <<>> /\ s[Len(s)] \in WhiteSpace
    THEN TrimEnd(SubSeq(s, 1, Len(s) - 1))
    ELSE s

\* String.prototype.trim
Trim(s) == TrimEnd(TrimStart(s))

\* stringUtils.isEmpty: null/absent, or of length zero once trimmed
isEmpty(v) == v = NULL \/ Len(Trim(v)) = 0

\* stringUtils.safeTrim: the trimmed string ('' for null/absent)
safeTrim(v) == IF v = NULL THEN <<>> ELSE Trim(v)

----------------------------------------------------------------------------
(* Regular expressions, as the sets of positions a match can reach.        *)
(* A position p means: the first p characters of s are consumed.           *)

\* the literal character c
Lit(s, P, c) == {p + 1 : p \in {q \in P : q < Len(s) /\ s[q + 1] = c}}

\* between lo and hi characters of the class C
Rep(s, P, C, lo, hi) ==
    {j \in 0..Len(s) :
        \E i \in P : /\ j - i >= lo
                     /\ j - i <= hi
                     /\ \A k \in (i + 1)..j : s[k] \in C}

\* e? for a sub-expression that reaches Q from P
Opt(P, Q) == P \cup Q

\* ^ ... $ : the match starts at 0 and must consume the whole string
Start == {0}
AtEnd(s, P) == Len(s) \in P

\* /^(97(8|9))?\d{1,5}-\d{1,7}-\d{1,7}-[\dX]{1,7}$/
isbnPattern(s) ==
    LET p97     == Lit(s, Lit(s, Start, "9"), "7")
        prefix  == Lit(s, p97, "8") \cup Lit(s, p97, "9")
        g1      == Rep(s, Opt(Start, prefix), Digit, 1, 5)
        g2      == Rep(s, Lit(s, g1, "-"), Digit, 1, 7)
        g3      == Rep(s, Lit(s, g2, "-"), Digit, 1, 7)
        g4      == Rep(s, Lit(s, g3, "-"), Digit \cup {"X"}, 1, 7)
    IN  AtEnd(s, g4)

\* patterns.pageCount: /^[1-9][0-9]*$/
pageCountPattern(s) ==
    AtEnd(s, Rep(s, Rep(s, Start, Digit \ {"0"}, 1, 1), Digit, 0, Len(s)))

\* patterns.publishDate: /^\d{4}-\d{2}-\d{2}$/
publishDatePattern(s) ==
    LET y == Rep(s, Start, Digit, 4, 4)
        m == Rep(s, Lit(s, y, "-"), Digit, 2, 2)
        d == Rep(s, Lit(s, m, "-"), Digit, 2, 2)
    IN  AtEnd(s, d)

\* one ([\w\-]+\.) group
LabelDot(s, P) == Lit(s, Rep(s, P, WordChar \cup {"-"}, 1, Len(s)), ".")

\* ([\w\-]+\.)+
RECURSIVE LabelDotPlus(_, _)
LabelDotPlus(s, P) ==
    LET Q == LabelDot(s, P)
    IN  IF Q = {} THEN {} ELSE Q \cup LabelDotPlus(s, Q)

\* patterns.coverImageUrl: /^(https?:\/\/)?([\w\-]+\.)+[\w\-]+(\/\S*)?$/
coverImageUrlPattern(s) ==
    LET http   == Lit(s, Lit(s, Lit(s, Lit(s, Start, "h"), "t"), "t"), "p")
        https  == Opt(http, Lit(s, http, "s"))
        scheme == Lit(s, Lit(s, Lit(s, https, ":"), "/"), "/")
        labels == LabelDotPlus(s, Opt(Start, scheme))
        last   == Rep(s, labels, WordChar \cup {"-"}, 1, Len(s))
        path   == Rep(s, Lit(s, last, "/"), Chars \ WhiteSpace, 0, Len(s))
    IN  AtEnd(s, Opt(last, path))

----------------------------------------------------------------------------
(* Number conversion of the > operator (string > number)                   *)

DigitVal ==
    ("0" :> 0) @@ ("1" :> 1) @@ ("2" :> 2) @@ ("3" :> 3) @@ ("4" :> 4) @@
    ("5" :> 5) @@ ("6" :> 6) @@ ("7" :> 7) @@ ("8" :> 8) @@ ("9" :> 9)

RECURSIVE DecimalValue(_)
DecimalValue(s) ==
    IF s = <<>> THEN 0
    ELSE 10 * DecimalValue(SubSeq(s, 1, Len(s) - 1)) + DigitVal[s[Len(s)]]

RECURSIVE Pow10(_)
Pow10(k) == IF k = 0 THEN 1 ELSE 10 * Pow10(k - 1)

AllDigits(s) == \A i \in 1..Len(s) : s[i] \in Digit

\* ToNumber of a string, as the fraction num/den: white space is stripped,
\* the empty string is 0, an optionally signed decimal literal (digits,
\* digits.digits, digits. or .digits) is its value, anything else is NaN.
\* (Exponents, radix prefixes and Infinity need the characters "e", "x",
\* "b", "o", "I" next to digits; no input below has them.)
ToNumber(s) ==
    LET t        == Trim(s)
        signed   == t # <<>> /\ t[1] \in {"+", "-"}
        unsigned == IF signed THEN Tail(t) ELSE t
        sign     == IF signed /\ t[1] = "-" THEN -1 ELSE 1
        dots     == {i \in 1..Len(unsigned) : unsigned[i] = "."}
        dot      == IF dots = {} THEN Len(unsigned) + 1
                    ELSE CHOOSE i \in dots : \A j \in dots : i <= j
        int      == SubSeq(unsigned, 1, dot - 1)
        frac     == SubSeq(unsigned, dot + 1, Len(unsigned))
    IN  IF t = <<>> THEN [nan |-> FALSE, num |-> 0, den |-> 1]
        ELSE IF AllDigits(int) /\ AllDigits(frac) /\ Len(int) + Len(frac) > 0
        THEN [nan |-> FALSE,
              num |-> sign * DecimalValue(int \o frac),
              den |-> Pow10(Len(frac))]
        ELSE [nan |-> TRUE, num |-> 0, den |-> 1]

\* s > y for a string s and a number y: s is converted; NaN compares false
StringGreaterThan(s, y) ==
    LET x == ToNumber(s) IN ~x.nan /\ x.num > y * x.den

----------------------------------------------------------------------------
(* messages *)

messages ==
    [required |->
        [title       |-> "Please enter the title.",
         author      |-> "Please enter the author.",
         isbn        |-> "Please enter the ISBN.",
         price       |-> "Please enter the price.",
         publishDate |-> "Please enter the publish date.",
         detail      |->
            [description   |-> "Please enter the description.",
             language      |-> "Please enter the language.",
             pageCount     |-> "Please enter the page count.",
             publisher     |-> "Please enter the publisher.",
             coverImageUrl |-> "Please enter the cover image URL.",
             edition       |-> "Please enter the edition."]],
     format |->
        [isbn          |-> "ISBN must be 10-13 digits with hyphens. e.g. 978-3-16-148410-0",
         coverImageUrl |-> "Not a valid image URL. e.g. http://example.com/image.jpg",
         price         |-> "Not a valid price. e.g. 10000",
         pageCount     |-> "Page count must be a number greater than 0. e.g. 300"]]

\* obj.key: the property's value, undefined when obj has no such property
Prop(obj, key) == IF key \in DOMAIN obj THEN obj[key] ELSE UNDEFINED

priceNotPositiveMessage == "Price must be a number greater than 0."
bookRequiredMessage == "Book data is required."
unknownFieldMessage == "Unknown field."

----------------------------------------------------------------------------
(* validators *)

Fail(msg, fld) == [isValid |-> FALSE, message |-> msg, field |-> fld]
Pass == [isValid |-> TRUE]

validators_title(title) ==
    IF isEmpty(title)
    THEN Fail(Prop(messages.required, "title"), "title")
    ELSE Pass

validators_isbn(isbn) ==
    IF isEmpty(isbn)
    THEN Fail(Prop(messages.required, "isbn"), "isbn")
    ELSE IF ~isbnPattern(safeTrim(isbn))
    THEN Fail(Prop(messages.format, "isbn"), "isbn")
    ELSE Pass

\* validators.author testing the raw value, without trimming it
validators_author_noTrim(author) ==
    IF author = NULL \/ author = <<>>
    THEN Fail(Prop(messages.required, "author"), "author")
    ELSE Pass

validators_author(author) ==
    IF isEmpty(author)
    THEN Fail(Prop(messages.required, "author"), "author")
    ELSE Pass

validators_coverImageUrl(coverImageUrl) ==
    IF isEmpty(coverImageUrl)
    THEN Fail(Prop(messages.required, "coverImageUrl"), "coverImageUrl")
    ELSE IF ~coverImageUrlPattern(safeTrim(coverImageUrl))
    THEN Fail(Prop(messages.format, "coverImageUrl"), "coverImageUrl")
    ELSE Pass

validators_price(price) ==
    IF isEmpty(price)
    THEN Fail(Prop(messages.required, "price"), "price")
    ELSE IF StringGreaterThan(safeTrim(price), 0)
    THEN Fail(priceNotPositiveMessage, "price")
    ELSE Pass

validators_pageCount(pageCount) ==
    IF isEmpty(pageCount)
    THEN Fail(Prop(messages.required, "pageCount"), "pageCount")
    ELSE IF ~pageCountPattern(safeTrim(pageCount))
    THEN Fail(Prop(messages.format, "pageCount"), "pageCount")
    ELSE Pass

validators_publishDate(publishDate) ==
    IF isEmpty(publishDate)
    THEN Fail(Prop(messages.required, "publishDate"), "publishDate")
    ELSE IF ~publishDatePattern(safeTrim(publishDate))
    THEN Fail(Prop(messages.format, "publishDate"), "publishDate")
    ELSE Pass

validators_detail(detail) ==
    IF isEmpty(detail)
    THEN Fail(Prop(messages.required, "publishDate"), "publishDate")
    ELSE Pass

\* the own properties of the validators object
ValidatorNames ==
    {"title", "isbn", "author", "coverImageUrl", "price", "pageCount",
     "publishDate", "detail"}

\* validators[name](v) for an own property
validators(name, v) ==
    CASE name = "title"         -> validators_title(v)
      [] name = "isbn"          -> validators_isbn(v)
      [] name = "author"        -> validators_author(v)
      [] name = "coverImageUrl" -> validators_coverImageUrl(v)
      [] name = "price"         -> validators_price(v)
      [] name = "pageCount"     -> validators_pageCount(v)
      [] name = "publishDate"   -> validators_publishDate(v)
      [] name = "detail"        -> validators_detail(v)

\* properties every object inherits from Object.prototype
ObjectPrototypeNames ==
    {"constructor", "toString", "valueOf", "hasOwnProperty", "__proto__"}

\* validator(value) when validators[fieldName] is an inherited property.
\* The module is strict code, so the function is called with this = undefined.
\*   constructor     Object(value): a wrapper object (or a new empty object
\*                   for null/undefined); it has no isValid property
\*   toString        returns the string "[object Undefined]"
\*   valueOf, hasOwnProperty   ToObject(undefined) throws a TypeError
\*   __proto__       Object.prototype itself, an object: calling it throws
callInherited(name, v) ==
    CASE name = "constructor" -> [wrapped |-> v]
      [] name = "toString"    -> [primitive |-> "[object Undefined]"]
      [] OTHER                -> [throws |-> "TypeError"]

\* validateBook checking the author before the title
validateBook_authorFirst(book) ==
    IF book = <<>>
    THEN [isValid |-> FALSE, message |-> bookRequiredMessage]
    ELSE
    LET b            == book[1]
        titleResult  == validators_title(b.title)
        authorResult == validators_author(b.author)
    IN  IF ~authorResult.isValid THEN authorResult
        ELSE IF ~titleResult.isValid THEN titleResult
        ELSE IF b.detail # <<>>
        THEN LET pageCountResult     == validators_pageCount(b.detail[1].pageCount)
                 coverImageUrlResult ==
                     validators_coverImageUrl(b.detail[1].coverImageUrl)
             IN  IF ~pageCountResult.isValid THEN pageCountResult
                 ELSE IF ~coverImageUrlResult.isValid THEN coverImageUrlResult
                 ELSE [isValid |-> TRUE]
        ELSE [isValid |-> TRUE]

\* validateBook also invoking the isbn validator it extracts the value for
validateBook_withIsbn(book) ==
    IF book = <<>>
    THEN [isValid |-> FALSE, message |-> bookRequiredMessage]
    ELSE
    LET b            == book[1]
        titleResult  == validators_title(b.title)
        authorResult == validators_author(b.author)
        isbnResult   == validators_isbn(b.isbn)
    IN  IF ~titleResult.isValid THEN titleResult
        ELSE IF ~authorResult.isValid THEN authorResult
        ELSE IF ~isbnResult.isValid THEN isbnResult
        ELSE IF b.detail # <<>>
        THEN LET pageCountResult     == validators_pageCount(b.detail[1].pageCount)
                 coverImageUrlResult ==
                     validators_coverImageUrl(b.detail[1].coverImageUrl)
             IN  IF ~pageCountResult.isValid THEN pageCountResult
                 ELSE IF ~coverImageUrlResult.isValid THEN coverImageUrlResult
                 ELSE [isValid |-> TRUE]
        ELSE [isValid |-> TRUE]

validateBook(book) ==
    IF book = <<>>
    THEN [isValid |-> FALSE, message |-> bookRequiredMessage]
    ELSE
    LET b            == book[1]
        titleResult  == validators_title(b.title)
        authorResult == validators_author(b.author)
    IN  IF ~titleResult.isValid THEN titleResult
        ELSE IF ~authorResult.isValid THEN authorResult
        ELSE IF b.detail # <<>>
        THEN LET pageCountResult     == validators_pageCount(b.detail[1].pageCount)
                 coverImageUrlResult ==
                     validators_coverImageUrl(b.detail[1].coverImageUrl)
             IN  IF ~pageCountResult.isValid THEN pageCountResult
                 ELSE IF ~coverImageUrlResult.isValid THEN coverImageUrlResult
                 ELSE [isValid |-> TRUE]
        ELSE [isValid |-> TRUE]

validateField(fieldName, value) ==
    IF fieldName \in ValidatorNames
    THEN validators(fieldName, value)
    ELSE IF fieldName \in ObjectPrototypeNames
    THEN callInherited(fieldName, value)
    ELSE [isValid |-> TRUE, message |-> unknownFieldMessage]

----------------------------------------------------------------------------
(* Inputs of the validation module *)

ValueAlphabet == {" ", "0", "1", "-", "a", "."}

\* every string over ValueAlphabet of length at most n
StringsUpTo(n) == UNION {[1..k -> ValueAlphabet] : k \in 0..n}

Isbn13Hyphenated == <<"9","7","8","-","3","-","1","6","-","1","4","8","4","1","0","-","0">>
IsbnFourGroups   == <<"9","7","8","3","-","1","6","-","1","4","8","4","1","0","-","0">>
IsbnNoHyphens    == <<"1","2","3","4">>
Price100         == <<"1","0","0">>
Price10000       == <<"1","0","0","0","0">>
DateDashed       == <<"2","0","2","4","-","0","1","-","1","5">>
DateSlashed      == <<"2","0","2","4","/","0","1","/","1","5">>
UrlHttp          == <<"h","t","t","p",":","/","/","e","x","a","m","p","l","e",".",
                      "c","o","m","/","x",".","j","p","g">>
UrlNot           == <<"n","o","t"," ","a"," ","u","r","l">>
Pages300         == <<"3","0","0">>

Samples ==
    {Isbn13Hyphenated, IsbnFourGroups, IsbnNoHyphens, Price100, Price10000,
     DateDashed, DateSlashed, UrlHttp, UrlNot, Pages300}

Values == StringsUpTo(MaxLen) \cup Samples \cup {NULL}

FieldNames ==
    ValidatorNames \cup ObjectPrototypeNames
        \cup {"nonexistent", "description", "language", "email"}

TextVals  == {NULL, <<>>, <<" ">>, <<"a">>, <<" ", "a", " ">>}
IsbnVals  == {<<>>, IsbnNoHyphens, IsbnFourGroups}
PriceVals == {<<>>, Price100}
DateVals  == {NULL, DateDashed}
PageVals  == {NULL, <<>>, <<"0">>, <<"1">>, Pages300}
UrlVals   == {<<>>, <<"a">>, <<"a", ".", "a">>, UrlHttp}
DescVals  == {<<>>, <<"a">>}

Details ==
    {<<>>} \cup
    {<<d>> : d \in [pageCount : PageVals, coverImageUrl : UrlVals,
                    description : DescVals]}

Books ==
    {<<>>} \cup
    {<<b>> : b \in [title : TextVals, author : TextVals, isbn : IsbnVals,
                    price : PriceVals, publishDate : DateVals,
                    detail : Details]}

----------------------------------------------------------------------------
(* The validation module, called with every input *)

NotReturned == [returned |-> FALSE]

Calls ==
    {[fn |-> "validateField", fieldName |-> n, value |-> v] :
        n \in FieldNames, v \in Values}
    \cup {[fn |-> "validateBook", book |-> b] : b \in Books}

\* a caller is about to call the module with some arguments
LibInit ==
    /\ call \in Calls
    /\ result = NotReturned

CallValidateField ==
    /\ call.fn = "validateField"
    /\ result = NotReturned
    /\ result' = validateField(call.fieldName, call.value)
    /\ UNCHANGED <<call, pageVars>>

CallValidateBook ==
    /\ call.fn = "validateBook"
    /\ result = NotReturned
    /\ result' = validateBook(call.book)
    /\ UNCHANGED <<call, pageVars>>

Next == CallValidateField \/ CallValidateBook

----------------------------------------------------------------------------
(* main.js: the page *)

\* let editingBookId = null
null == 0

BookIds == 1..MaxBooks

\* the named controls of #bookForm that getFormData reads
FormElements ==
    {"title", "author", "isbn", "price", "publishDate", "language",
     "pageCount", "publisher", "edition", "coverImageUrl", "description"}

\* elements.form.reset(): every control back to its (empty) default
EmptyForm == [n \in FormElements |-> <<>>]

\* what the user types into a control
InputVals(n) ==
    CASE n = "title"         -> {<<>>, <<"a">>}
      [] n = "author"        -> {<<>>, <<"a">>}
      [] n = "pageCount"     -> {<<>>, <<"1">>}
      [] n = "coverImageUrl" -> {<<>>, <<"a", ".", "a">>}
      [] OTHER               -> {<<>>}

\* formData.get(name) || fallback
OrElse(v, fallback) == IF v = <<>> \/ v = NULL THEN fallback ELSE v

getFormData(f) ==
    [title       |-> Trim(OrElse(f.title, <<>>)),
     author      |-> Trim(OrElse(f.author, <<>>)),
     isbn        |-> Trim(OrElse(f.isbn, <<>>)),
     price       |-> Trim(OrElse(f.price, <<>>)),
     publishDate |-> OrElse(f.publishDate, NULL),
     detail      |->
        <<[language      |-> OrElse(f.language, <<>>),
           pageCount     |-> OrElse(f.pageCount, <<>>),
           publisher     |-> OrElse(f.publisher, <<>>),
           edition       |-> OrElse(f.edition, <<>>),
           coverImageUrl |-> OrElse(f.coverImageUrl, <<>>),
           description   |-> OrElse(f.description, <<>>)]>>]

\* The API service: an opaque CRUD collaborator.  It holds the books by id;
\* a request takes effect when its response is delivered; any request may
\* fail; a request naming an id it does not hold fails.  The model follows
\* the books of BookIds: the user clicks on their rows only, and a book that
\* createBook adds gets an id outside BookIds.
\* apiService.getBook(id) resolves to the record as createBook sent it.
storedBook(id) ==
    [id          |-> id,
     title       |-> <<"a">>,
     author      |-> <<"a">>,
     isbn        |-> <<>>,
     price       |-> <<>>,
     publishDate |-> NULL,
     detail      |-> <<[language |-> <<>>, pageCount |-> <<"1">>,
                        publisher |-> <<>>, edition |-> <<>>,
                        coverImageUrl |-> <<"a", ".", "a">>,
                        description |-> <<>>]>>]

apiErrorMessage == "API error"
createdMessage == "The book was registered."
deletedMessage == "The book was deleted."

\* an async handler suspended at `await apiService.<at>(...)`
Task(h, at, id, data) == [h |-> h, at |-> at, id |-> id, data |-> data]

\* a handler once it has called loadBooks and awaits apiService.getBooks:
\* its bookId and bookData are not used again, and what is left of it after
\* loadBooks (the button label of the finally block) is outside the state
awaitingLoadBooks(t) == Task("loadBooks", "getBooks", null, <<>>)

\* inflight is the bag of the suspended handlers: any of them may resume next
Suspend(q, t) == q (+) SetToBag({t})
Resume(q, t) == q (-) SetToBag({t})

\* DOMContentLoaded: findElements, setupEvents, then loadBooks is awaited
PageInit ==
    /\ form = EmptyForm
    /\ editingBookId = null
    /\ inflight = SetToBag({Task("loadBooks", "getBooks", null, <<>>)})
    /\ server = BookIds
    /\ table = {}
    /\ deletedOk = {}
    /\ shown = "none"
    /\ focus = "none"
    /\ cancelShown = FALSE

\* the page is loading and no call into the module is under way
IdleLib ==
    /\ call = [fn |-> "none"]
    /\ result = NotReturned

Init == LibInit /\ PageInit

PageSpecInit == IdleLib /\ PageInit

\* the user edits one control
TypeInto ==
    \E n \in FormElements : \E v \in InputVals(n) :
        /\ form[n] # v
        /\ form' = [form EXCEPT ![n] = v]
        /\ UNCHANGED <<editingBookId, inflight, server, table, deletedOk,
                       shown, focus, cancelShown, libVars>>

\* focusField(fieldName): the control of that name, if the form has one
focusField(fieldName) ==
    IF fieldName \in FormElements THEN fieldName ELSE focus

\* handleFormSubmit without the return after a failed validation
handleFormSubmit_noReturn ==
    LET bookData   == getFormData(form)
        validation == validateBook(<<bookData>>)
    IN  /\ IF ~validation.isValid
           THEN /\ shown' = validation.message
                /\ focus' = focusField(Prop(validation, "field"))
           ELSE UNCHANGED <<shown, focus>>
        /\ BagCardinality(inflight) < MaxInflight
        /\ inflight' = Suspend(inflight,
               IF editingBookId # null
               THEN Task("updateBook", "updateBook", editingBookId, <<bookData>>)
               ELSE Task("createBook", "createBook", null, <<bookData>>))
        /\ UNCHANGED <<form, editingBookId, server, table, deletedOk,
                       cancelShown, libVars>>

\* the submit listener: handleFormSubmit up to its first await, that is up
\* to `await apiService.createBook/updateBook` inside createBook/updateBook
handleFormSubmit ==
    LET bookData   == getFormData(form)
        validation == validateBook(<<bookData>>)
    IN  IF ~validation.isValid
        THEN /\ shown' = validation.message
             /\ focus' = focusField(Prop(validation, "field"))
             /\ UNCHANGED <<form, editingBookId, inflight, server, table,
                            deletedOk, cancelShown, libVars>>
        ELSE /\ BagCardinality(inflight) < MaxInflight
             /\ inflight' = Suspend(inflight,
                    IF editingBookId # null
                    THEN Task("updateBook", "updateBook", editingBookId,
                              <<bookData>>)
                    ELSE Task("createBook", "createBook", null, <<bookData>>))
             /\ UNCHANGED <<form, editingBookId, server, table, deletedOk,
                            shown, focus, cancelShown, libVars>>

\* resetForm
resetForm ==
    /\ form' = EmptyForm
    /\ editingBookId' = null
    /\ cancelShown' = FALSE
    /\ shown' = "none"
    /\ focus' = "title"

\* the click listener of the cancel button
CancelClick ==
    /\ cancelShown
    /\ resetForm
    /\ UNCHANGED <<inflight, server, table, deletedOk, libVars>>

\* window.editBook(bookId) up to `await apiService.getBook(bookId)`
editBook ==
    \E bookId \in table :
        /\ BagCardinality(inflight) < MaxInflight
        /\ inflight' = Suspend(inflight, Task("editBook", "getBook", bookId, <<>>))
        /\ UNCHANGED <<form, editingBookId, server, table, deletedOk, shown,
                       focus, cancelShown, libVars>>

\* window.deleteBook(bookId, bookTitle) up to `await apiService.deleteBook`
deleteBook ==
    \E bookId \in table : \E confirmed \in BOOLEAN :
        /\ confirmed
        /\ BagCardinality(inflight) < MaxInflight
        /\ inflight' = Suspend(inflight,
                              Task("deleteBook", "deleteBook", bookId, <<>>))
        /\ UNCHANGED <<form, editingBookId, server, table, deletedOk, shown,
                       focus, cancelShown, libVars>>

\* createBook after `await apiService.createBook(bookData)`
createBookResponse(t, ok) ==
    /\ t.at = "createBook"
    /\ IF ok
       THEN /\ shown' = createdMessage
            /\ form' = EmptyForm
            /\ inflight' = Suspend(Resume(inflight, t),
                                   awaitingLoadBooks(t))
       ELSE /\ shown' = apiErrorMessage
            /\ inflight' = Resume(inflight, t)
            /\ UNCHANGED form
    /\ UNCHANGED <<editingBookId, server, table, deletedOk, focus, cancelShown,
                   libVars>>

\* updateBook after `await apiService.updateBook(bookId, bookData)`; the
\* success message it shows is hidden at once by resetForm's hideMessage
updateBookResponse(t, ok) ==
    /\ t.at = "updateBook"
    /\ IF ok
       THEN /\ t.id \in server
            /\ resetForm
            /\ inflight' = Suspend(Resume(inflight, t),
                                   awaitingLoadBooks(t))
       ELSE /\ shown' = apiErrorMessage
            /\ inflight' = Resume(inflight, t)
            /\ UNCHANGED <<form, editingBookId, focus, cancelShown>>
    /\ UNCHANGED <<server, table, deletedOk, libVars>>

\* window.deleteBook after `await apiService.deleteBook(bookId)`
deleteBookResponse(t, ok) ==
    /\ t.at = "deleteBook"
    /\ IF ok
       THEN /\ t.id \in server
            /\ server' = server \ {t.id}
            /\ deletedOk' = deletedOk \cup {t.id}
            /\ shown' = deletedMessage
            /\ inflight' = Suspend(Resume(inflight, t),
                                   awaitingLoadBooks(t))
       ELSE /\ shown' = apiErrorMessage
            /\ inflight' = Resume(inflight, t)
            /\ UNCHANGED <<server, deletedOk>>
    /\ UNCHANGED <<form, editingBookId, table, focus, cancelShown, libVars>>

\* a destructuring default: `{ key = d } = b`
Default(b, key, d) ==
    IF key \in DOMAIN b /\ b[key] # UNDEFINED THEN b[key] ELSE d

\* control.value = v: null becomes the empty string
InputValue(v) == IF v = NULL THEN <<>> ELSE v

\* fillFormWithBookData(book)
fillFormWithBookData(f, b) ==
    [f EXCEPT !.title         = InputValue(Default(b, "title", <<>>)),
              !.author        = InputValue(Default(b, "author", <<>>)),
              !.isbn          = InputValue(Default(b, "isbn", <<>>)),
              !.coverImageUrl = InputValue(Default(b, "coverImageUrl", <<>>)),
              !.price         = InputValue(Default(b, "price", <<>>)),
              !.publishDate   = InputValue(Default(b, "publishDate", NULL))]

\* setEditMode(bookId)
setEditMode(bookId) ==
    /\ editingBookId' = bookId
    /\ cancelShown' = TRUE
    /\ focus' = "title"

\* window.editBook after `await apiService.getBook(bookId)`
getBookResponse(t, ok) ==
    /\ t.at = "getBook"
    /\ inflight' = Resume(inflight, t)
    /\ IF ok
       THEN /\ t.id \in server
            /\ form' = fillFormWithBookData(form, storedBook(t.id))
            /\ setEditMode(t.id)
            /\ UNCHANGED shown
       ELSE /\ shown' = apiErrorMessage
            /\ UNCHANGED <<form, editingBookId, focus, cancelShown>>
    /\ UNCHANGED <<server, table, deletedOk, libVars>>

\* loadBooks after `await apiService.getBooks()`: renderBookTable, or
\* showError and renderErrorTable; the handler that awaited loadBooks ends
loadBooksResponse(t, ok) ==
    /\ t.at = "getBooks"
    /\ inflight' = Resume(inflight, t)
    /\ IF ok
       THEN /\ table' = server
            /\ UNCHANGED shown
       ELSE /\ table' = {}
            /\ shown' = apiErrorMessage
    /\ UNCHANGED <<form, editingBookId, server, deletedOk, focus, cancelShown,
                   libVars>>

createBookDone == \E t \in BagToSet(inflight) : \E ok \in BOOLEAN : createBookResponse(t, ok)
updateBookDone == \E t \in BagToSet(inflight) : \E ok \in BOOLEAN : updateBookResponse(t, ok)
deleteBookDone == \E t \in BagToSet(inflight) : \E ok \in BOOLEAN : deleteBookResponse(t, ok)
getBookDone    == \E t \in BagToSet(inflight) : \E ok \in BOOLEAN : getBookResponse(t, ok)
loadBooksDone  == \E t \in BagToSet(inflight) : \E ok \in BOOLEAN : loadBooksResponse(t, ok)

PageNext ==
    \/ TypeInto
    \/ handleFormSubmit
    \/ CancelClick
    \/ editBook
    \/ deleteBook
    \/ createBookDone
    \/ updateBookDone
    \/ deleteBookDone
    \/ getBookDone
    \/ loadBooksDone

Spec == Init /\ [][Next]_vars

PageSpec == PageSpecInit /\ [][PageNext]_vars

----------------------------------------------------------------------------
(* Properties of the validation module (under Spec) *)

Returned == result # NotReturned
IsResult(r) == "isValid" \in DOMAIN r

\* missing, empty or made of white space only
Blank(v) == v = NULL \/ \A i \in 1..Len(v) : v[i] \in WhiteSpace

\* a defined, non-empty message
HasMessage(r) ==
    "message" \in DOMAIN r /\ r.message # UNDEFINED /\ r.message # ""

\* C1: whenever a validator of the table (through validateField) or
\* validateBook returns isValid = false, the result carries a defined,
\* non-empty message, and it carries a field name unless it is the
\* whole-record-missing failure of validateBook.
C1_FailureCarriesMessageAndField ==
    (/\ Returned
     /\ call.fn = "validateField" => call.fieldName \in ValidatorNames
     /\ IsResult(result)
     /\ ~result.isValid)
    => /\ HasMessage(result)
       /\ ~(call.fn = "validateBook" /\ call.book = <<>>)
            => "field" \in DOMAIN result /\ result.field # UNDEFINED

\* C2: validateField('isbn', '978-3-16-148410-0') returns isValid = true,
\* and validateField('isbn', '1234') returns isValid = false with the ISBN
\* format message and field 'isbn'.
C2_IsbnExamples ==
    (Returned /\ call.fn = "validateField" /\ call.fieldName = "isbn")
    => /\ call.value = Isbn13Hyphenated
            => IsResult(result) /\ result.isValid
       /\ call.value = IsbnNoHyphens
            => result = [isValid |-> FALSE,
                         message |-> messages.format.isbn,
                         field   |-> "isbn"]

\* an ordinary positive numeric string such as '100' or '10000'
OrdinaryPositive(v) ==
    v # NULL /\ v # <<>> /\ AllDigits(v) /\ DecimalValue(v) > 0

\* C5: validateField('price', v) returns exactly {isValid: true} for every
\* ordinary positive numeric string v (the greater-than-zero failure is never
\* returned for it), and fails with the price required-message and field
\* 'price' for an empty or white-space-only v.
C5_PositivePricePasses ==
    (Returned /\ call.fn = "validateField" /\ call.fieldName = "price")
    => /\ OrdinaryPositive(call.value) => result = [isValid |-> TRUE]
       /\ Blank(call.value)
            => result = [isValid |-> FALSE,
                         message |-> messages.required.price,
                         field   |-> "price"]

\* C8: validateField(name, value) returns isValid = true with the
\* unknown-field message for every name that has no validator in the table,
\* and exactly the single validator's result for a name that is in the table.
C8_UnknownFieldPasses ==
    (Returned /\ call.fn = "validateField")
    => /\ call.fieldName \notin ValidatorNames
            => /\ IsResult(result)
               /\ result.isValid
               /\ result.message = unknownFieldMessage
       /\ call.fieldName \in ValidatorNames
            => result = validators(call.fieldName, call.value)

BookCall == Returned /\ call.fn = "validateBook" /\ call.book # <<>>

\* the record of the call with some of its properties replaced
With(author, detail) ==
    <<[call.book[1] EXCEPT !.author = author, !.detail = detail]>>
WithDetail(pageCount, coverImageUrl) ==
    <<[call.book[1] EXCEPT
        !.detail = <<[call.book[1].detail[1] EXCEPT
                        !.pageCount = pageCount,
                        !.coverImageUrl = coverImageUrl]>>]>>

C6_BlankTitleOrAuthorFails ==
    BookCall =>
    LET b == call.book[1]
    IN  /\ Blank(b.title)
            => result = [isValid |-> FALSE,
                         message |-> messages.required.title,
                         field   |-> "title"]
        /\ ~Blank(b.title) /\ Blank(b.author)
            => result = [isValid |-> FALSE,
                         message |-> messages.required.author,
                         field   |-> "author"]

\* a white-space-only author in a record that carries a detail
C6_Witness ==
    /\ BookCall
    /\ call.book[1].title = <<" ", "a", " ">>
    /\ call.book[1].author = <<" ">>
    /\ call.book[1].detail # <<>>
    /\ ~result.isValid
    /\ result.field = "author"

----------------------------------------------------------------------------
(* Properties of the page (under PageSpec) *)

\* the handlers this step suspended at an API write
NewWrites ==
    {t \in BagToSet(inflight') :
        /\ t.at \in {"createBook", "updateBook"}
        /\ CopiesIn(t, inflight') > CopiesIn(t, inflight)}

\* C3: apiService.createBook/updateBook is called only with the record just
\* collected from the form and only when validateBook found it valid; when
\* validateBook finds it invalid, handleFormSubmit shows the message, moves
\* the focus to the reported field if there is one, calls neither, and
\* leaves editingBookId unchanged.
C3_ValidateBeforeWrite ==
    [][LET bookData   == getFormData(form)
           validation == validateBook(<<bookData>>)
       IN  /\ \A t \in NewWrites :
                /\ t.data = <<bookData>>
                /\ validation.isValid
                /\ t.at = (IF editingBookId # null THEN "updateBook"
                                                   ELSE "createBook")
           /\ (handleFormSubmit /\ ~validation.isValid)
                => /\ shown' = validation.message
                   /\ "field" \in DOMAIN validation
                        /\ validation.field \in FormElements
                        => focus' = validation.field
                   /\ inflight' = inflight
                   /\ editingBookId' = editingBookId]_vars

\* an update is in flight, and a later submit with an empty title was
\* refused: the title's message is shown and the title has the focus
C3_Witness ==
    /\ \E t \in BagToSet(inflight) :
            t.at = "updateBook" /\ t.id = editingBookId
    /\ form.title = <<>>
    /\ shown = messages.required.title
    /\ focus = "title"

\* C9: whenever the continuation of a successful createBook or updateBook
\* clears the form, editingBookId is null once it has done so: the page is
\* never left with an emptied form while editingBookId names a book.
C9_ClearedFormLeavesEditMode ==
    [][(\E t \in BagToSet(inflight) :
            createBookResponse(t, TRUE) \/ updateBookResponse(t, TRUE))
       => editingBookId' = null]_vars

\* C10: apiService.updateBook is never called with the id of a book whose
\* deletion through window.deleteBook has completed successfully.
C10_NoUpdateOfDeletedBook ==
    [][\A t \in NewWrites : t.at = "updateBook" => t.id \notin deletedOk]_vars

====
